---- MODULE Spec2Model ----
(***************************************************************************)
(* Model of the Package-Lock Security Analyzer (src/app.js): the dataset   *)
(* load, the analyze handler, dependency extraction, version comparison    *)
(* and package classification.                                             *)
(*                                                                         *)
(* Representation of strings.  TLC treats strings as atoms, so a version  *)
(* string is kept as the sequence of its '.'-separated components (what    *)
(* v.split('.') returns), and a component as a record [d, r]: a run of     *)
(* decimal digits with value d (d = NoDigits when there are none) followed *)
(* by the remaining text r.  [d |-> 10, r |-> ""] is "10",                 *)
(* [d |-> 0, r |-> "-beta"] is "0-beta", [d |-> NoDigits, r |-> ""] is "". *)
(* Two strings are equal exactly when their representations are equal.     *)
(* A value that is not a string (undefined) is the empty sequence, which   *)
(* no string splits to ("" splits to one empty component).                 *)
(*                                                                         *)
(* A package name or a path is kept as the sequence of the pieces it is    *)
(* written with, separators included: "node_modules/a" is                  *)
(* <<"node_modules", "/", "a">>, "a > b" is <<"a", " > ", "b">>, "" is     *)
(* << >>; + on strings is \o.                                              *)
(***************************************************************************)
EXTENDS Integers, Sequences, FiniteSets, TLC

VARIABLES
    compromisedPackagesData,  \* app.js:2, the module-level dataset
    v1, v2, cmp,              \* compareVersions: its arguments and its result
    packageName, version, threat,  \* checkPackage: its arguments and its result
    packageLock, dependencies,  \* extractDependencies: its argument and its result
    loadPc,            \* where loadCompromisedPackages stands
    response,          \* the body fetch() resolved with
    compromisedCount,  \* the text of the #compromisedCount element
    pasteArea,         \* the value of the #pasteArea element
    pending,           \* the file.text() promises not yet settled
    results,           \* what displayResults last rendered
    alertMsg           \* the last alert()

cmpVars == <<v1, v2, cmp>>

chkVars == <<packageName, version, threat>>

extVars == <<packageLock, dependencies>>

loadVars == <<loadPc, response, compromisedCount>>

userVars == <<pasteArea, pending>>

displayVars == <<results, alertMsg>>

vars == <<compromisedPackagesData, cmpVars, chkVars, extVars, loadVars, userVars,
          displayVars>>

----------------------------------------------------------------------------
(* Bounds *)

MaxNum == 1

MaxParts == 3

MaxVersions == 2

MaxEntries == 2

MaxPkgs == 2

MaxNodes == 3

MaxScanPkgs == 2

MaxScanNodes == 2

MaxPending == 1

----------------------------------------------------------------------------
(* Strings *)

NoDigits == 0 - 1

Undefined == << >>

Num(n) == [d |-> n, r |-> ""]

Txt(s) == [d |-> NoDigits, r |-> s]

NumTxt(n, s) == [d |-> n, r |-> s]

EmptyStr == [d |-> NoDigits, r |-> ""]

Ver3(a, b, c) == <<Num(a), Num(b), Num(c)>>

Ver2(a, b) == <<Num(a), Num(b)>>

\* Number(s) is NaN unless s is all digits or empty
NumberIsNaN(s) == s.r # ""

\* Number(s) when it is not NaN: Number("") is 0
NumberValue(s) == IF s.d = NoDigits THEN 0 ELSE s.d

\* Mutant: parseInt in place of Number, so "1-rc" reads as 1
PartOrZeroParseInt(parts, i) ==
    IF i > Len(parts) THEN 0
    ELSE IF parts[i].d = NoDigits THEN 0
    ELSE parts[i].d

\* parts[i] || 0 after parts = v.split('.').map(Number): an index past the end
\* reads undefined, and undefined, NaN and 0 are all falsy
PartOrZero(parts, i) ==
    IF i > Len(parts) THEN 0
    ELSE IF NumberIsNaN(parts[i]) THEN 0
    ELSE NumberValue(parts[i])

\* Mutant: the loop stops at the shorter operand
MinOf(a, b) == IF a < b THEN a ELSE b

\* Math.max
MaxOf(a, b) == IF a > b THEN a ELSE b

\* Mutant: p1 >= p2 returns 1
RECURSIVE compareLoopGe(_, _, _)
compareLoopGe(parts1, parts2, i) ==
    IF i > MaxOf(Len(parts1), Len(parts2)) THEN 0
    ELSE LET p1 == PartOrZero(parts1, i)
             p2 == PartOrZero(parts2, i)
         IN  IF p1 >= p2 THEN 1
             ELSE IF p1 < p2 THEN 0 - 1
             ELSE compareLoopGe(parts1, parts2, i + 1)

\* The for loop of compareVersions from index i on (1-based here)
RECURSIVE compareLoop(_, _, _)
compareLoop(parts1, parts2, i) ==
    IF i > MaxOf(Len(parts1), Len(parts2)) THEN 0
    ELSE LET p1 == PartOrZero(parts1, i)
             p2 == PartOrZero(parts2, i)
         IN  IF p1 > p2 THEN 1
             ELSE IF p1 < p2 THEN 0 - 1
             ELSE compareLoop(parts1, parts2, i + 1)

\* compareVersions(v1, v2): .split on a value that is not a string throws
compareVersions(a, b) ==
    IF a = Undefined \/ b = Undefined
    THEN [threw |-> TRUE, value |-> 0]
    ELSE [threw |-> FALSE, value |-> compareLoop(a, b, 1)]

----------------------------------------------------------------------------
(* The dataset and checkPackage *)

\* The package name "s"
Name(s) == <<s>>

\* let compromisedPackagesData = null
Null == [kind |-> "null", attackName |-> "", hasCompromisedPackages |-> FALSE,
         compromisedPackages |-> << >>]

\* A parsed data/compromised-packages.json
Dataset(pkgs) == [kind |-> "object", attackName |-> "Shai Hulud 2.0",
                  hasCompromisedPackages |-> TRUE, compromisedPackages |-> pkgs]

\* Mutant: findLast, the last entry with that name
FindIndexLast(pkgs, name) ==
    IF \E i \in 1..Len(pkgs) : pkgs[i].name = name
    THEN CHOOSE i \in 1..Len(pkgs) :
            /\ pkgs[i].name = name
            /\ \A j \in (i + 1)..Len(pkgs) : pkgs[j].name # name
    ELSE 0

\* Mutant: only the first entry is looked at
FindIndexFirstOnly(pkgs, name) ==
    IF Len(pkgs) >= 1 /\ pkgs[1].name = name THEN 1 ELSE 0

\* Array.prototype.find(pkg => pkg.name === packageName): the index of the
\* first entry with that name, 0 when there is none
FindIndex(pkgs, name) ==
    IF \E i \in 1..Len(pkgs) : pkgs[i].name = name
    THEN CHOOSE i \in 1..Len(pkgs) :
            /\ pkgs[i].name = name
            /\ \A j \in 1..(i - 1) : pkgs[j].name # name
    ELSE 0

\* Mutant: membership by numeric equality of the versions
IncludesNumeric(list, x) ==
    \E i \in 1..Len(list) :
        LET r == compareVersions(x, list[i]) IN ~r.threw /\ r.value = 0

\* Array.prototype.includes on strings
Includes(list, x) == \E i \in 1..Len(list) : list[i] = x

\* Mutant: >= 0 in place of > 0
IsHigherOrEqual(ver, compVer) ==
    LET r == compareVersions(ver, compVer)
    IN  ~r.threw /\ r.value >= 0

\* The callback of .some(): a throw of compareVersions is caught and gives false
IsHigher(ver, compVer) ==
    LET r == compareVersions(ver, compVer)
    IN  ~r.threw /\ r.value > 0

\* Mutant: .every() in place of .some()
EveryHigher(ver, compromisedVersions) ==
    \A k \in 1..Len(compromisedVersions) : IsHigher(ver, compromisedVersions[k])

\* compromisedVersions.some(compVer => ...)
SomeHigher(ver, compromisedVersions) ==
    \E k \in 1..Len(compromisedVersions) : IsHigher(ver, compromisedVersions[k])

NoThreat == [kind |-> "null", severity |-> "", exactMatch |-> FALSE,
             compromisedVersions |-> << >>, installedVersion |-> Undefined]

TypeError == [kind |-> "TypeError", severity |-> "", exactMatch |-> FALSE,
              compromisedVersions |-> << >>, installedVersion |-> Undefined]

Threat(sev, exact, compVers, ver) ==
    [kind |-> "threat", severity |-> sev, exactMatch |-> exact,
     compromisedVersions |-> compVers, installedVersion |-> ver]

\* checkPackage(packageName, version) reading the dataset `data`
checkPackage(data, name, ver) ==
    IF ~data.hasCompromisedPackages THEN TypeError
    ELSE LET i == FindIndex(data.compromisedPackages, name)
         IN  IF i = 0 THEN NoThreat
             ELSE LET compromisedVersions == data.compromisedPackages[i].compromisedVersions
                      exactMatch == Includes(compromisedVersions, ver)
                      isHigherVersion == SomeHigher(ver, compromisedVersions)
                  IN  IF exactMatch
                      THEN Threat("critical", TRUE, compromisedVersions, ver)
                      ELSE IF isHigherVersion
                      THEN Threat("high", FALSE, compromisedVersions, ver)
                      ELSE Threat("warning", FALSE, compromisedVersions, ver)

\* parseInt(s): the leading digits, NaN when there are none
ParseIntIsNaN(s) == s.d = NoDigits

\* The test's higher version: parts[last] = String(parseInt(parts[last]) + 10)
AddTen(ver) ==
    LET n == Len(ver)
        last == ver[n]
    IN  [ver EXCEPT ![n] = IF ParseIntIsNaN(last) THEN Txt("NaN")
                           ELSE Num(last.d + 10)]

----------------------------------------------------------------------------
(* extractDependencies *)

EmptyString == << >>

\* "node_modules/" followed by the name or path rest
InNodeModules(rest) == <<"node_modules", "/">> \o rest

\* A string is falsy when it is empty; a missing field reads undefined, falsy
\* too, and is kept as the empty string where only its truth is tested
Truthy(str) == str # EmptyString

\* A version is falsy when it is undefined or ""
TruthyVersion(ver) == ver # Undefined /\ ver # <<EmptyStr>>

StartsWithNodeModules(path) ==
    Len(path) >= 2 /\ path[1] = "node_modules" /\ path[2] = "/"

\* Mutant: the regular expression without its ^ anchor and with the g flag
RECURSIVE StripEveryNodeModules(_)
StripEveryNodeModules(path) ==
    IF path = << >> THEN << >>
    ELSE IF StartsWithNodeModules(path)
    THEN StripEveryNodeModules(SubSeq(path, 3, Len(path)))
    ELSE <<Head(path)>> \o StripEveryNodeModules(Tail(path))

\* path.replace(/^node_modules\//, '')
StripNodeModules(path) ==
    IF StartsWithNodeModules(path) THEN SubSeq(path, 3, Len(path)) ELSE path

Dependency(name, ver, path) == [name |-> name, version |-> ver, path |-> path]

\* The callback of Object.entries(packageLock.packages).forEach on one entry
FlatEntry(result, pkg) ==
    IF pkg.path = EmptyString THEN result
    ELSE LET name == IF Truthy(pkg.name) THEN pkg.name ELSE StripNodeModules(pkg.path)
         IN  IF Truthy(name) /\ TruthyVersion(pkg.version)
             THEN Append(result, Dependency(name, pkg.version, pkg.path))
             ELSE result

\* Object.entries(packageLock.packages).forEach, the entries in key order
RECURSIVE FlatForEach(_, _)
FlatForEach(result, pkgs) ==
    IF pkgs = << >> THEN result
    ELSE FlatForEach(FlatEntry(result, Head(pkgs)), Tail(pkgs))

\* Mutant: a node without a version is not pushed, as in the flat strategy
RECURSIVE extractDependenciesRecursiveVersioned(_, _, _)
extractDependenciesRecursiveVersioned(deps, result, prefix) ==
    IF deps = << >> THEN result
    ELSE LET info == Head(deps)
             pushed == IF TruthyVersion(info.version)
                       THEN Append(result, Dependency(info.name, info.version,
                                                      prefix \o info.name))
                       ELSE result
             below == extractDependenciesRecursiveVersioned(info.dependencies, pushed,
                                                            prefix \o info.name \o <<" > ">>)
         IN  extractDependenciesRecursiveVersioned(Tail(deps), below, prefix)

\* extractDependenciesRecursive(deps, result, prefix); an absent dependencies
\* field and an empty one both add nothing and are the empty sequence
RECURSIVE extractDependenciesRecursive(_, _, _)
extractDependenciesRecursive(deps, result, prefix) ==
    IF deps = << >> THEN result
    ELSE LET info == Head(deps)
             pushed == Append(result, Dependency(info.name, info.version, prefix \o info.name))
             below == extractDependenciesRecursive(info.dependencies, pushed,
                                                   prefix \o info.name \o <<" > ">>)
         IN  extractDependenciesRecursive(Tail(deps), below, prefix)

\* Mutant: a document with neither field is read as one package of its own
extractDependenciesSelf(lock) ==
    LET flat == IF lock.hasPackages THEN FlatForEach(<< >>, lock.packages) ELSE << >>
    IN  IF lock.hasDependencies
        THEN extractDependenciesRecursive(lock.dependencies, flat, EmptyString)
        ELSE IF lock.hasPackages THEN flat
        ELSE <<Dependency(Name("root"), Ver3(1, 0, 0), EmptyString)>>

\* Mutant: else if (packageLock.dependencies), the tree read only without packages
extractDependenciesElseIf(lock) ==
    IF lock.hasPackages THEN FlatForEach(<< >>, lock.packages)
    ELSE IF lock.hasDependencies
    THEN extractDependenciesRecursive(lock.dependencies, << >>, EmptyString)
    ELSE << >>

\* extractDependencies(packageLock)
extractDependencies(lock) ==
    LET flat == IF lock.hasPackages THEN FlatForEach(<< >>, lock.packages) ELSE << >>
    IN  IF lock.hasDependencies
        THEN extractDependenciesRecursive(lock.dependencies, flat, EmptyString)
        ELSE flat

----------------------------------------------------------------------------
(* analyzePackageLock and displayResults *)

\* An object that is not a dataset: it has no compromisedPackages
NoList == [kind |-> "object", attackName |-> "", hasCompromisedPackages |-> FALSE,
           compromisedPackages |-> << >>]

\* A response body that is not JSON
NotJson == [kind |-> "text", attackName |-> "", hasCompromisedPackages |-> FALSE,
            compromisedPackages |-> << >>]

NoBody == [kind |-> "none", attackName |-> "", hasCompromisedPackages |-> FALSE,
           compromisedPackages |-> << >>]

\* !compromisedPackagesData: null is falsy, an object is truthy
DataIsFalsy(data) == data.kind = "null"

\* const results = { safe: 0, warnings: 0, threats: [], allPackages: [] }
NewResults == [safe |-> 0, threats |-> << >>, allPackages |-> << >>, threw |-> FALSE]

\* Mutant: allPackages.push(dep) only on the safe branch
AnalyzeDepPushSafeOnly(data, res, dep) ==
    LET found == checkPackage(data, dep.name, dep.version)
    IN  IF found.kind = "TypeError" THEN [res EXCEPT !.threw = TRUE]
        ELSE IF found.kind = "threat"
        THEN [res EXCEPT !.threats = Append(@, [name |-> dep.name, version |-> dep.version,
                                                path |-> dep.path, threat |-> found])]
        ELSE [res EXCEPT !.safe = @ + 1, !.allPackages = Append(@, dep)]

\* Mutant: threats.unshift in place of threats.push
AnalyzeDepUnshift(data, res, dep) ==
    LET found == checkPackage(data, dep.name, dep.version)
    IN  IF found.kind = "TypeError" THEN [res EXCEPT !.threw = TRUE]
        ELSE IF found.kind = "threat"
        THEN [res EXCEPT !.threats = <<[name |-> dep.name, version |-> dep.version,
                                        path |-> dep.path, threat |-> found]>> \o @,
                         !.allPackages = Append(@, dep)]
        ELSE [res EXCEPT !.safe = @ + 1, !.allPackages = Append(@, dep)]

\* The callback of dependencies.forEach on one dependency
AnalyzeDep(data, res, dep) ==
    LET found == checkPackage(data, dep.name, dep.version)
    IN  IF found.kind = "TypeError" THEN [res EXCEPT !.threw = TRUE]
        ELSE IF found.kind = "threat"
        THEN [res EXCEPT !.threats = Append(@, [name |-> dep.name, version |-> dep.version,
                                                path |-> dep.path, threat |-> found]),
                         !.allPackages = Append(@, dep)]
        ELSE [res EXCEPT !.safe = @ + 1, !.allPackages = Append(@, dep)]

\* dependencies.forEach(dep => ...): an exception ends the loop
RECURSIVE AnalyzeEach(_, _, _)
AnalyzeEach(data, res, deps) ==
    IF deps = << >> \/ res.threw THEN res
    ELSE AnalyzeEach(data, AnalyzeDep(data, res, Head(deps)), Tail(deps))

NotShown == [shown |-> FALSE, safe |-> 0, threats |-> << >>, totalPackages |-> 0]

\* displayResults(results): the counters and cards it renders
displayResults(res) ==
    [shown |-> TRUE, safe |-> res.safe, threats |-> res.threats,
     totalPackages |-> Len(res.allPackages)]

NotLoadedAlert == "Compromised packages data is not loaded yet."

\* analyzePackageLock(packageLock): what is rendered and alerted afterwards, and
\* whether it threw; `shown` and `alerted` are their values before the call
analyzePackageLock(data, lock, shown, alerted) ==
    IF DataIsFalsy(data)
    THEN [results |-> shown, alertMsg |-> NotLoadedAlert, threw |-> FALSE]
    ELSE LET res == AnalyzeEach(data, NewResults, extractDependencies(lock))
         IN  IF res.threw
             THEN [results |-> shown, alertMsg |-> alerted, threw |-> TRUE]
             ELSE [results |-> displayResults(res), alertMsg |-> alerted, threw |-> FALSE]

\* The #compromisedCount element before the script writes to it
NoText == [text |-> "", count |-> 0, attackName |-> ""]

LoadingError == [text |-> "Loading error", count |-> 0, attackName |-> ""]

\* updateInfoSection(): `${count} compromised packages - ${attackName}`
CountText(data) ==
    [text |-> "compromised packages", count |-> Len(data.compromisedPackages),
     attackName |-> data.attackName]

\* The value of an empty #pasteArea
EmptyArea == [kind |-> "empty", lock |-> [hasPackages |-> FALSE, packages |-> << >>,
                                          hasDependencies |-> FALSE, dependencies |-> << >>]]

----------------------------------------------------------------------------
(* Inputs of the version comparator *)

\* "0".."MaxNum", "beta" and "1-rc"
Components == {Num(n) : n \in 0..MaxNum} \cup {Txt("beta"), NumTxt(1, "-rc")}

SeqsUpTo(S, n) == UNION {[1..k -> S] : k \in 0..n}

VersionStrings == SeqsUpTo(Components, MaxParts) \ {<< >>}

NotCalled == [called |-> FALSE, fwd |-> [threw |-> FALSE, value |-> 0],
              rev |-> [threw |-> FALSE, value |-> 0]]

NotChecked == [kind |-> "none", severity |-> "", exactMatch |-> FALSE,
               compromisedVersions |-> << >>, installedVersion |-> Undefined]

IdleCompare == v1 = Undefined /\ v2 = Undefined /\ cmp = NotCalled

IdleClassify == packageName = << >> /\ version = Undefined /\ threat = NotChecked

NoLock == [hasPackages |-> FALSE, packages |-> << >>,
           hasDependencies |-> FALSE, dependencies |-> << >>]

NotExtracted == [done |-> FALSE, list |-> << >>]

IdleExtract == packageLock = NoLock /\ dependencies = NotExtracted

IdleApp ==
    /\ loadPc = "none" /\ response = NoBody /\ compromisedCount = NoText
    /\ pasteArea = EmptyArea /\ pending = {}
    /\ results = NotShown /\ alertMsg = ""

InitCompare ==
    /\ compromisedPackagesData = Null
    /\ IdleClassify
    /\ IdleExtract
    /\ IdleApp
    /\ v1 \in VersionStrings
    /\ v2 \in VersionStrings
    /\ cmp = NotCalled

CallCompareVersions ==
    /\ ~cmp.called
    /\ cmp' = [called |-> TRUE, fwd |-> compareVersions(v1, v2),
               rev |-> compareVersions(v2, v1)]
    /\ UNCHANGED <<compromisedPackagesData, v1, v2, chkVars, extVars, loadVars,
                   userVars, displayVars>>

NextCompare == CallCompareVersions

SpecCompare == InitCompare /\ [][NextCompare]_vars

----------------------------------------------------------------------------
(* Properties of compareVersions, under SpecCompare *)

\* The value compareVersions(a, b) returned (it did not throw)
Cmp(a, b) == compareVersions(a, b).value

IsUnsigned(s) == s.r = "" /\ s.d # NoDigits

IsUnsignedVersion(v) == \A i \in 1..Len(v) : IsUnsigned(v[i])

\* The components of v as integers, a non-numeric or missing one as 0
ZeroPadded(v, n) == [i \in 1..n |-> IF i <= Len(v) /\ IsUnsigned(v[i]) THEN v[i].d ELSE 0]

\* The sign of the lexicographic comparison of two integer sequences of one length
LexSign(x, y) ==
    IF \A i \in 1..Len(x) : x[i] = y[i] THEN 0
    ELSE LET k == CHOOSE i \in 1..Len(x) :
                     x[i] # y[i] /\ \A j \in 1..(i - 1) : x[j] = y[j]
         IN  IF x[k] > y[k] THEN 1 ELSE 0 - 1

Longer(a, b) == IF Len(a) > Len(b) THEN Len(a) ELSE Len(b)

\* C7: on versions of dot-separated unsigned integers, compare(a, b) is the sign
\* of the lexicographic comparison of the zero-padded component sequences;
\* compare("2.0.0","1.9.9") = 1, compare("1.0.0","1.0.1") = -1, compare(a, a) = 0
C7_CompareIsLexicographic ==
    /\ Cmp(Ver3(2, 0, 0), Ver3(1, 9, 9)) = 1
    /\ Cmp(Ver3(1, 0, 0), Ver3(1, 0, 1)) = 0 - 1
    /\ Cmp(Ver3(1, 0, 0), Ver3(1, 0, 0)) = 0
    /\ (cmp.called /\ IsUnsignedVersion(v1) /\ IsUnsignedVersion(v2)) =>
          /\ ~cmp.fwd.threw
          /\ cmp.fwd.value = LexSign(ZeroPadded(v1, Longer(v1, v2)),
                                     ZeroPadded(v2, Longer(v1, v2)))
          /\ (v1 = v2 => cmp.fwd.value = 0)

\* C7 witness: a shorter operand loses to a longer one in a padded slot
C7_Witness ==
    /\ cmp.called /\ IsUnsignedVersion(v1) /\ IsUnsignedVersion(v2)
    /\ Len(v1) < Len(v2) /\ \A i \in 1..Len(v1) : v1[i] = v2[i]
    /\ cmp.fwd.value = 0 - 1

\* C8: for all version strings, compare(a, b) = -compare(b, a)
C8_CompareAntisymmetric ==
    cmp.called => /\ ~cmp.fwd.threw /\ ~cmp.rev.threw
                  /\ cmp.fwd.value = 0 - cmp.rev.value

\* C8 witness: operands of different lengths, one with a non-numeric component,
\* that compare unequal
C8_Witness ==
    /\ cmp.called /\ Len(v1) # Len(v2)
    /\ \E i \in 1..Len(v1) : NumberIsNaN(v1[i])
    /\ cmp.fwd.value = 1 /\ cmp.rev.value = 0 - 1

\* v and w have one length and differ only in slots where v is non-numeric and
\* w is "0"
DiffersOnlyByText(v, w) ==
    /\ Len(v) = Len(w)
    /\ \E i \in 1..Len(v) : v[i] # w[i]
    /\ \A i \in 1..Len(v) : v[i] # w[i] => (NumberIsNaN(v[i]) /\ w[i] = Num(0))

\* C9: compare never fails on strings and returns -1, 0 or 1; a missing or
\* non-numeric component counts as 0, so compare("1.2","1.2.0") = 0 and a
\* version that differs from another only by a non-numeric component where the
\* other has 0 compares equal to it
C9_CompareCoercesToZero ==
    /\ Cmp(Ver2(1, 2), Ver3(1, 2, 0)) = 0
    /\ cmp.called =>
          /\ ~cmp.fwd.threw
          /\ cmp.fwd.value \in {0 - 1, 0, 1}
          /\ cmp.fwd.value = LexSign(ZeroPadded(v1, Longer(v1, v2)),
                                     ZeroPadded(v2, Longer(v1, v2)))
          /\ (DiffersOnlyByText(v1, v2) => cmp.fwd.value = 0)

\* C9 witness: a digit-led non-numeric component ("1-rc") against "0"
C9_Witness ==
    /\ cmp.called /\ DiffersOnlyByText(v1, v2)
    /\ \E i \in 1..Len(v1) : v1[i] = NumTxt(1, "-rc")
    /\ cmp.fwd.value = 0

----------------------------------------------------------------------------
(* Inputs of checkPackage *)

DsNames == {Name("a"), Name("b")}

QueryNames == DsNames \cup {Name("c")}

\* "1.0.0" and "1.2.0"
ListVersions == {Ver3(1, 0, 0), Ver3(1, 2, 0)}

\* undefined, "1.0", "1.1.0", "0.9.0", "1.3.0", "1.0.0-beta", "1.2.x", the
\* listed versions, and the listed versions with 10 added to the last component
QueryVersions ==
    {Undefined, Ver2(1, 0), Ver3(1, 1, 0), Ver3(0, 9, 0), Ver3(1, 3, 0),
     <<Num(1), Num(0), NumTxt(0, "-beta")>>, <<Num(1), Num(2), Txt("x")>>}
    \cup ListVersions \cup {AddTen(c) : c \in ListVersions}

Entries == [name : DsNames, compromisedVersions : SeqsUpTo(ListVersions, MaxVersions)]

Datasets == {Dataset(pkgs) : pkgs \in SeqsUpTo(Entries, MaxEntries)}

InitClassify ==
    /\ compromisedPackagesData \in Datasets
    /\ IdleCompare
    /\ IdleClassify
    /\ IdleExtract
    /\ IdleApp

CallCheckPackage ==
    /\ threat = NotChecked
    /\ \E name \in QueryNames, ver \in QueryVersions :
          /\ packageName' = name
          /\ version' = ver
          /\ threat' = checkPackage(compromisedPackagesData, name, ver)
    /\ UNCHANGED <<compromisedPackagesData, cmpVars, extVars, loadVars, userVars,
                   displayVars>>

NextClassify == CallCheckPackage

SpecClassify == InitClassify /\ [][NextClassify]_vars

----------------------------------------------------------------------------
(* Properties of checkPackage, under SpecClassify *)

Checked == threat # NotChecked

Pkgs == compromisedPackagesData.compromisedPackages

NameListed == \E i \in 1..Len(Pkgs) : Pkgs[i].name = packageName

\* The compromisedVersions of the entry the lookup matched: the first entry
\* named packageName
MatchedVersions ==
    Pkgs[CHOOSE i \in 1..Len(Pkgs) :
            Pkgs[i].name = packageName /\ \A j \in 1..(i - 1) : Pkgs[j].name # packageName
        ].compromisedVersions

Members(list) == {list[i] : i \in 1..Len(list)}

Reversed(list) == [i \in 1..Len(list) |-> list[Len(list) + 1 - i]]

\* The dataset with every entry's compromisedVersions in reverse order
ReversedLists(data) ==
    [data EXCEPT !.compromisedPackages =
        [i \in 1..Len(data.compromisedPackages) |->
            [data.compromisedPackages[i] EXCEPT
                !.compromisedVersions = Reversed(data.compromisedPackages[i].compromisedVersions)]]]

\* C2: classify returns not-found exactly when no dataset entry has the
\* package's name; when an entry matches, it returns one finding whose severity
\* is critical, high or warning
C2_NotFoundIffNameAbsent ==
    Checked =>
        /\ threat.kind \in {"null", "threat"}
        /\ threat.kind = "null" <=> ~NameListed
        /\ threat.kind = "threat" => threat.severity \in {"critical", "high", "warning"}
        /\ threat.kind = "null" => threat.severity = ""

\* C2 witness: a finding for a name that only the second entry carries
C2_Witness ==
    /\ Checked /\ threat.kind = "threat"
    /\ Len(Pkgs) = 2 /\ Pkgs[1].name # packageName /\ Pkgs[2].name = packageName

\* C3: for a matched package, the result is critical with exactMatch = true
\* exactly when the installed version string is a member of the matched entry's
\* compromisedVersions; otherwise exactMatch is false and the severity is not
\* critical
C3_CriticalIffExactMember ==
    (Checked /\ NameListed) =>
        IF version \in Members(MatchedVersions)
        THEN threat.severity = "critical" /\ threat.exactMatch
        ELSE threat.severity # "critical" /\ ~threat.exactMatch

\* C3 witness: an installed version that equals a listed one numerically but not
\* as a string ("1.0" against "1.0.0") is not critical
C3_Witness ==
    /\ Checked /\ NameListed /\ version # Undefined
    /\ version \notin Members(MatchedVersions)
    /\ \E c \in Members(MatchedVersions) : Cmp(version, c) = 0 /\ IsUnsignedVersion(c)
    /\ ~threat.exactMatch

\* The installed version is a listed version with 10 added to its last component
IsAddTenOfListed ==
    \E c \in Members(MatchedVersions) : ~ParseIntIsNaN(c[Len(c)]) /\ version = AddTen(c)

\* C4: for a matched package whose installed version (a string) is not listed,
\* the result is high exactly when compare(version, c) = 1 for some listed c,
\* whatever the order of the list, and warning exactly when compare(version, c)
\* is 0 or -1 for every listed c; a listed version with 10 added to its last
\* component is high when it is not itself listed
C4_HighIffSomeLower ==
    (Checked /\ NameListed /\ version # Undefined
       /\ version \notin Members(MatchedVersions)) =>
        /\ threat.severity = "high" <=>
              \E c \in Members(MatchedVersions) : Cmp(version, c) = 1
        /\ threat.severity = "warning" <=>
              \A c \in Members(MatchedVersions) : Cmp(version, c) \in {0, 0 - 1}
        /\ checkPackage(ReversedLists(compromisedPackagesData), packageName, version).severity
              = threat.severity
        /\ IsAddTenOfListed => threat.severity = "high"

\* C4 witness: a listed version plus 10 in the last component, high although the
\* first listed version is not below it
C4_Witness ==
    /\ Checked /\ NameListed /\ version # Undefined
    /\ version \notin Members(MatchedVersions)
    /\ IsAddTenOfListed
    /\ Len(MatchedVersions) = 2 /\ Cmp(version, MatchedVersions[1]) # 1
    /\ threat.severity = "high"

\* C5 as stated: a high result means the installed version exceeds every listed
\* compromised version
C5_HighExceedsAll ==
    (Checked /\ threat.severity = "high") =>
        \A c \in Members(MatchedVersions) : Cmp(version, c) = 1

\* C5 amended: a high result means the installed version is not listed and
\* exceeds at least one listed compromised version
C5_HighExceedsSome ==
    (Checked /\ threat.severity = "high") =>
        /\ version # Undefined
        /\ version \notin Members(MatchedVersions)
        /\ \E c \in Members(MatchedVersions) :
              ~compareVersions(version, c).threw /\ compareVersions(version, c).value = 1

\* C5 witness: high for a version between two listed versions
C5_Witness ==
    /\ Checked /\ threat.severity = "high"
    /\ \E c \in Members(MatchedVersions) : Cmp(version, c) = 1
    /\ \E c \in Members(MatchedVersions) : Cmp(version, c) = 0 - 1

\* The dataset cut down to the first entry named packageName
FirstEntryOnly ==
    [compromisedPackagesData EXCEPT
        !.compromisedPackages =
            <<[name |-> packageName, compromisedVersions |-> MatchedVersions]>>]

\* The versions that only entries after the first one named packageName list
LaterOnlyVersions ==
    {c \in UNION {Members(Pkgs[i].compromisedVersions) :
                     i \in {j \in 1..Len(Pkgs) : Pkgs[j].name = packageName}} :
        c \notin Members(MatchedVersions)}

\* C16: a dependency gets at most one finding, and among several entries of the
\* same name the first alone decides: the finding is the one the first entry
\* alone would give, reports the first entry's compromisedVersions, and is not
\* critical for a version that only a later entry lists
C16_FirstEntryDecides ==
    Checked =>
        /\ threat.kind \in {"null", "threat"}
        /\ NameListed =>
              /\ threat.kind = "threat"
              /\ threat.compromisedVersions = MatchedVersions
              /\ threat = checkPackage(FirstEntryOnly, packageName, version)
              /\ version \in LaterOnlyVersions =>
                    (threat.severity # "critical" /\ ~threat.exactMatch)

\* C16 witness: two entries of the same name, the installed version listed by
\* the second only; the finding is not critical and reports the first entry's
\* versions
C16_Witness ==
    /\ Checked /\ NameListed
    /\ Len(Pkgs) = 2 /\ Pkgs[1].name = packageName /\ Pkgs[2].name = packageName
    /\ version \in LaterOnlyVersions
    /\ Pkgs[1].compromisedVersions # << >>
    /\ threat.severity \in {"high", "warning"}
    /\ threat.compromisedVersions = Pkgs[1].compromisedVersions

----------------------------------------------------------------------------
(* Inputs of extractDependencies *)

\* The keys of packages: "" (the root project), "node_modules/a" and
\* "node_modules/b/node_modules/a"
PkgPaths == {EmptyString, InNodeModules(Name("a")),
             InNodeModules(Name("b") \o <<"/">> \o InNodeModules(Name("a")))}

\* An entry of packages: its key, its name field ("" when it has none) and its
\* version field
PkgEntries == [path : PkgPaths, name : {EmptyString, Name("b")},
               version : {Undefined, Ver3(1, 0, 0)}]

\* The packages mappings of up to n entries, the keys distinct
PkgMapsUpTo(n) == {m \in SeqsUpTo(PkgEntries, n) :
                      \A i, j \in 1..Len(m) : i # j => m[i].path # m[j].path}

TreeNames == {Name("a"), Name("b")}

TreeVersions == {Undefined, Ver3(1, 0, 0)}

RECURSIVE TreesOfSize(_)
RECURSIVE ForestsOfSize(_)
\* The dependency nodes with n nodes in all
TreesOfSize(n) ==
    IF n = 0 THEN {}
    ELSE {[name |-> nm, version |-> ver, dependencies |-> f] :
             nm \in TreeNames, ver \in TreeVersions, f \in ForestsOfSize(n - 1)}

\* The dependencies mappings with n nodes in all, the keys of a mapping distinct
ForestsOfSize(n) ==
    IF n = 0 THEN {<< >>}
    ELSE UNION {{<<tf[1]>> \o tf[2] :
                    tf \in {x \in TreesOfSize(k) \X ForestsOfSize(n - k) :
                               \A i \in 1..Len(x[2]) : x[2][i].name # x[1].name}} :
                k \in 1..n}

ForestsUpTo(n) == UNION {ForestsOfSize(k) : k \in 0..n}

\* The lockfiles with up to np entries of packages and up to nn dependency nodes;
\* a field that is absent holds nothing
LockfilesUpTo(np, nn) ==
    {l \in [hasPackages : BOOLEAN, packages : PkgMapsUpTo(np),
            hasDependencies : BOOLEAN, dependencies : ForestsUpTo(nn)] :
        /\ (~l.hasPackages => l.packages = << >>)
        /\ (~l.hasDependencies => l.dependencies = << >>)}

InitExtract ==
    /\ compromisedPackagesData = Null
    /\ IdleCompare
    /\ IdleClassify
    /\ packageLock \in LockfilesUpTo(MaxPkgs, MaxNodes)
    /\ dependencies = NotExtracted
    /\ IdleApp

CallExtractDependencies ==
    /\ ~dependencies.done
    /\ dependencies' = [done |-> TRUE, list |-> extractDependencies(packageLock)]
    /\ UNCHANGED <<compromisedPackagesData, cmpVars, chkVars, packageLock, loadVars,
                   userVars, displayVars>>

NextExtract == CallExtractDependencies

SpecExtract == InitExtract /\ [][NextExtract]_vars

----------------------------------------------------------------------------
(* Properties of extractDependencies, under SpecExtract *)

RECURSIVE CountNodes(_)
\* The number of nodes of a dependencies tree
CountNodes(deps) ==
    IF deps = << >> THEN 0
    ELSE 1 + CountNodes(Head(deps).dependencies) + CountNodes(Tail(deps))

\* The key without one leading "node_modules/"
WithoutOnePrefix(path) ==
    IF Len(path) >= 2 /\ SubSeq(path, 1, 2) = <<"node_modules", "/">>
    THEN [i \in 1..(Len(path) - 2) |-> path[i + 2]]
    ELSE path

NameOfEntry(pkg) == IF pkg.name # EmptyString THEN pkg.name ELSE WithoutOnePrefix(pkg.path)

\* The entry is not the root and has a name and a version
IsKept(pkg) ==
    /\ pkg.path # EmptyString
    /\ NameOfEntry(pkg) # EmptyString
    /\ pkg.version # Undefined

\* What the flat-map strategy is to emit: the kept entries in key order
ExpectedFlat ==
    LET kept == SelectSeq(packageLock.packages, IsKept)
    IN  [k \in 1..Len(kept) |->
            [name |-> NameOfEntry(kept[k]), version |-> kept[k].version,
             path |-> kept[k].path]]

\* C10: the flat-map strategy emits, in key order, one dependency for every
\* entry of packages whose key is not "" and that has a name and a version, and
\* none for another entry; the name is the entry's name field if it has one, else
\* the key without one leading "node_modules/", and the path is the key
C10_FlatMapEmitsKeptEntries ==
    (dependencies.done /\ packageLock.hasPackages) =>
        /\ Len(dependencies.list) = Len(ExpectedFlat) + CountNodes(packageLock.dependencies)
        /\ SubSeq(dependencies.list, 1, Len(ExpectedFlat)) = ExpectedFlat

\* C10 witness: the root entry is skipped and a nested key without a name field
\* is emitted under the name "b/node_modules/a"
C10_Witness ==
    /\ dependencies.done /\ packageLock.hasPackages
    /\ Len(packageLock.packages) = 2
    /\ packageLock.packages[1].path = EmptyString
    /\ packageLock.packages[1].version # Undefined
    /\ Len(packageLock.packages[2].path) > 3
    /\ Len(dependencies.list) >= 1
    /\ dependencies.list[1].name = Name("b") \o <<"/">> \o InNodeModules(Name("a"))

RECURSIVE JoinPath(_, _)
\* The names of the ancestors, from the top down, and the node's own name, joined
\* with " > "
JoinPath(ancestors, name) ==
    IF ancestors = << >> THEN name
    ELSE Head(ancestors) \o <<" > ">> \o JoinPath(Tail(ancestors), name)

RECURSIVE PreOrder(_, _)
\* The nodes of a dependencies tree in depth-first pre-order: a node, then its
\* subtree, then its next sibling
PreOrder(deps, ancestors) ==
    IF deps = << >> THEN << >>
    ELSE <<[name |-> Head(deps).name, version |-> Head(deps).version,
            path |-> JoinPath(ancestors, Head(deps).name)]>>
         \o PreOrder(Head(deps).dependencies, Append(ancestors, Head(deps).name))
         \o PreOrder(Tail(deps), ancestors)

\* The part of the extracted list that follows the flat strategy's output
TreePart ==
    LET n == CountNodes(packageLock.dependencies)
        len == Len(dependencies.list)
    IN  IF len >= n THEN SubSeq(dependencies.list, len - n + 1, len) ELSE << >>

\* C14: the recursive-tree strategy emits one dependency per node of the tree,
\* versionless nodes included, in depth-first pre-order; the name is the node's
\* key and the path is its ancestors' names from the top down and its own name
\* joined with " > "
C14_TreeWalkIsPreOrder ==
    (dependencies.done /\ packageLock.hasDependencies) =>
        /\ Len(dependencies.list) >= CountNodes(packageLock.dependencies)
        /\ TreePart = PreOrder(packageLock.dependencies, << >>)

\* C14 witness: a top-level node "a" with a versionless child "b", followed by a
\* sibling: the child comes second with path "a > b", the sibling third
C14_Witness ==
    /\ dependencies.done /\ packageLock.hasDependencies /\ ~packageLock.hasPackages
    /\ Len(packageLock.dependencies) = 2
    /\ Len(dependencies.list) = 3
    /\ dependencies.list[2].version = Undefined
    /\ dependencies.list[2].path = <<"a", " > ", "b">>
    /\ dependencies.list[2].name = Name("b")
    /\ dependencies.list[3].path = Name("b")

----------------------------------------------------------------------------
(* Inputs of analyzePackageLock *)

Entry(name, versions) == [name |-> name, compromisedVersions |-> versions]

\* "a" with "1.0.0" listed
DataA == Dataset(<<Entry(Name("a"), <<Ver3(1, 0, 0)>>)>>)

\* "b" with "0.9.0" listed, then "a" with "1.2.0" and "1.0.0"
DataBA == Dataset(<<Entry(Name("b"), <<Ver3(0, 9, 0)>>),
                    Entry(Name("a"), <<Ver3(1, 2, 0), Ver3(1, 0, 0)>>)>>)

\* "b" with "1.2.0" listed
DataB == Dataset(<<Entry(Name("b"), <<Ver3(1, 2, 0)>>)>>)

LoadedDatasets == {DataA, DataBA, DataB}

InitAnalyze ==
    /\ compromisedPackagesData \in LoadedDatasets \cup {Null, NoList}
    /\ IdleCompare
    /\ IdleClassify
    /\ packageLock \in LockfilesUpTo(MaxScanPkgs, MaxScanNodes)
    /\ dependencies = NotExtracted
    /\ IdleApp

\* A call analyzePackageLock(packageLock); an exception reaches the caller
CallAnalyzePackageLock ==
    LET out == analyzePackageLock(compromisedPackagesData, packageLock, results, alertMsg)
    IN  /\ results' = out.results
        /\ alertMsg' = IF out.threw THEN "TypeError" ELSE out.alertMsg
        /\ UNCHANGED <<compromisedPackagesData, cmpVars, chkVars, extVars, loadVars,
                       userVars>>

NextAnalyze == CallAnalyzePackageLock

SpecAnalyze == InitAnalyze /\ [][NextAnalyze]_vars

----------------------------------------------------------------------------
(* Properties of analyzePackageLock, under SpecAnalyze *)

\* C1: after an analyze that produced a result, the number of safe packages plus
\* the number of findings is the total number of extracted dependencies
C1_SafePlusFindingsIsTotal ==
    results.shown =>
        /\ results.safe + Len(results.threats) = results.totalPackages
        /\ results.totalPackages = Len(extractDependencies(packageLock))

\* C1 witness: a result with a safe package and two findings
C1_Witness ==
    /\ results.shown /\ results.safe >= 1 /\ Len(results.threats) >= 2
    /\ results.totalPackages >= 3

\* The dataset has an entry of that name
IsListed(data, name) ==
    \E i \in 1..Len(data.compromisedPackages) : data.compromisedPackages[i].name = name

\* The extracted dependencies whose name the dataset lists, in input order
ListedDependencies ==
    SelectSeq(extractDependencies(packageLock),
              LAMBDA dep : IsListed(compromisedPackagesData, dep.name))

\* C11: the findings are the dependencies whose name matches a dataset entry, in
\* input order and one per occurrence, each scored on its own version; every
\* other occurrence counts once in the safe count
C11_FindingsInInputOrder ==
    results.shown =>
        /\ Len(results.threats) = Len(ListedDependencies)
        /\ \A k \in 1..Len(ListedDependencies) :
              /\ results.threats[k].name = ListedDependencies[k].name
              /\ results.threats[k].version = ListedDependencies[k].version
              /\ results.threats[k].path = ListedDependencies[k].path
              /\ results.threats[k].threat.installedVersion = ListedDependencies[k].version
        /\ results.safe = Len(extractDependencies(packageLock)) - Len(ListedDependencies)

\* C11 witness: the same name and version at two paths gives two findings, after
\* a finding of another name, and a third name is counted safe
C11_Witness ==
    /\ results.shown
    /\ Len(results.threats) = 3
    /\ results.threats[1].name # results.threats[2].name
    /\ results.threats[2].name = results.threats[3].name
    /\ results.threats[2].version = results.threats[3].version
    /\ results.threats[2].path # results.threats[3].path
    /\ results.safe >= 1

\* The document has neither a packages nor a dependencies field
HasNeitherField == ~packageLock.hasPackages /\ ~packageLock.hasDependencies

\* analyzePackageLock has not been called yet
NotAnalyzed == results = NotShown /\ alertMsg = ""

\* C12: for a document with neither a packages nor a dependencies field,
\* extractDependencies returns the empty list and no exception reaches the caller;
\* an analyze of it with the dataset present shows a result of 0 packages, 0 safe
\* and no findings
C12_NeitherFieldGivesEmptyScan ==
    HasNeitherField =>
        /\ extractDependencies(packageLock) = << >>
        /\ alertMsg # "TypeError"
        /\ (~NotAnalyzed /\ ~DataIsFalsy(compromisedPackagesData)) =>
              /\ results.shown
              /\ results.totalPackages = 0
              /\ results.safe = 0
              /\ results.threats = << >>
              /\ alertMsg = ""

\* C12 witness: the document {} has been analyzed against a dataset with entries
C12_Witness ==
    /\ HasNeitherField
    /\ compromisedPackagesData.hasCompromisedPackages
    /\ Len(compromisedPackagesData.compromisedPackages) >= 1
    /\ results.shown
    /\ results.totalPackages = 0

\* How many dependencies of a list the dataset lists by name
CountListed(deps) ==
    Len(SelectSeq(deps, LAMBDA dep : IsListed(compromisedPackagesData, dep.name)))

\* C15: with both a packages mapping and a dependencies tree the extracted list
\* is the flat strategy's output followed by the tree strategy's output, nothing
\* removed, and the analyze scores every element of both
C15_BothStrategiesConcatenated ==
    (packageLock.hasPackages /\ packageLock.hasDependencies) =>
        LET tree == PreOrder(packageLock.dependencies, << >>)
        IN  /\ extractDependencies(packageLock) = ExpectedFlat \o tree
            /\ Len(extractDependencies(packageLock)) = Len(ExpectedFlat) + Len(tree)
            /\ results.shown =>
                  /\ results.totalPackages = Len(ExpectedFlat) + Len(tree)
                  /\ Len(results.threats) = CountListed(ExpectedFlat) + CountListed(tree)

\* C15 witness: "a" at 1.0.0 is in packages (node_modules/a) and in the tree, and
\* the result has a finding for each
C15_Witness ==
    /\ packageLock.hasPackages /\ packageLock.hasDependencies
    /\ results.shown
    /\ results.totalPackages = 2
    /\ Len(results.threats) = 2
    /\ results.threats[1].name = Name("a")
    /\ results.threats[1].path = InNodeModules(Name("a"))
    /\ results.threats[2].name = Name("a")
    /\ results.threats[2].path = Name("a")
    /\ results.threats[1].version = results.threats[2].version
    /\ results.threats[1].threat.severity = "critical"
    /\ results.threats[2].threat.severity = "critical"

----------------------------------------------------------------------------
(* The page: the dataset load and the user's events *)

PleasePasteAlert == "Please paste your package-lock.json content in the text area."

AnalyzeErrorAlert == "Error analyzing content. Make sure it is valid package-lock.json JSON."

ReadErrorAlert == "Error reading file. Make sure it is a valid package-lock.json file."

DropErrorAlert == "Error reading file."

DropInvalidAlert == "Please drop a valid package-lock.json file."

Packages(map) == [hasPackages |-> TRUE, packages |-> map,
                  hasDependencies |-> FALSE, dependencies |-> << >>]

Root == [path |-> EmptyString, name |-> Name("b"), version |-> Ver3(1, 0, 0)]

\* {}, a lockfile with the root project only, one with node_modules/a at 1.0.0,
\* and a version 1 lockfile with b and, below it, a
AppLockfiles ==
    {NoLock,
     Packages(<<Root>>),
     Packages(<<Root, [path |-> InNodeModules(Name("a")), name |-> EmptyString,
                       version |-> Ver3(1, 0, 0)]>>),
     [hasPackages |-> FALSE, packages |-> << >>, hasDependencies |-> TRUE,
      dependencies |-> <<[name |-> Name("b"), version |-> Ver3(1, 0, 0),
                          dependencies |-> <<[name |-> Name("a"),
                                              version |-> Ver3(1, 0, 0),
                                              dependencies |-> << >>]>>]>>]}

\* What the user pastes or uploads: text that is not JSON, the JSON null (on which
\* packageLock.packages throws), or a lockfile
Documents == {[kind |-> "text", lock |-> NoLock], [kind |-> "null", lock |-> NoLock]}
             \cup {[kind |-> "json", lock |-> l] : l \in AppLockfiles}

\* What the server answers data/compromised-packages.json with: the dataset, a
\* JSON object that is no dataset, the JSON null, or a page that is not JSON
Bodies == {DataA, DataBA, NoList, Null, NotJson}

\* The script has run to its end: loadCompromisedPackages() awaits fetch()
Init ==
    /\ compromisedPackagesData = Null
    /\ IdleCompare
    /\ IdleClassify
    /\ IdleExtract
    /\ loadPc = "fetch" /\ response = NoBody /\ compromisedCount = NoText
    /\ pasteArea = EmptyArea /\ pending = {}
    /\ results = NotShown /\ alertMsg = ""

\* await fetch(...) resolves
FetchResolves ==
    /\ loadPc = "fetch"
    /\ \E body \in Bodies : response' = body
    /\ loadPc' = "json"
    /\ UNCHANGED <<compromisedPackagesData, cmpVars, chkVars, extVars, compromisedCount,
                   userVars, displayVars>>

\* await fetch(...) rejects: the catch block
FetchRejects ==
    /\ loadPc = "fetch"
    /\ loadPc' = "failed"
    /\ compromisedCount' = LoadingError
    /\ UNCHANGED <<compromisedPackagesData, cmpVars, chkVars, extVars, response,
                   userVars, displayVars>>

\* await response.json() settles: on a value the assignment and
\* updateInfoSection() run, which returns early on a falsy value and throws on an
\* object without compromisedPackages; the catch block writes "Loading error"
JsonSettles ==
    /\ loadPc = "json"
    /\ IF response.kind = "text"
       THEN /\ loadPc' = "failed"
            /\ compromisedCount' = LoadingError
            /\ UNCHANGED compromisedPackagesData
       ELSE /\ compromisedPackagesData' = response
            /\ IF DataIsFalsy(response)
               THEN loadPc' = "done" /\ UNCHANGED compromisedCount
               ELSE IF ~response.hasCompromisedPackages
               THEN loadPc' = "failed" /\ compromisedCount' = LoadingError
               ELSE loadPc' = "done" /\ compromisedCount' = CountText(response)
    /\ UNCHANGED <<cmpVars, chkVars, extVars, response, userVars, displayVars>>

\* The user edits the text area
TypeInPasteArea ==
    /\ \E doc \in Documents \cup {EmptyArea} : pasteArea' = doc /\ doc # pasteArea
    /\ UNCHANGED <<compromisedPackagesData, cmpVars, chkVars, extVars, loadVars, pending,
                   displayVars>>

\* JSON.parse(text) then analyzePackageLock, inside try; an exception of either
\* gives alert(onError). On null the guard of analyzePackageLock comes first and
\* then extractDependencies throws
ParseAndAnalyze(doc, onError) ==
    IF doc.kind = "text"
    THEN results' = results /\ alertMsg' = onError
    ELSE IF doc.kind = "null"
    THEN /\ results' = results
         /\ alertMsg' = IF DataIsFalsy(compromisedPackagesData) THEN NotLoadedAlert
                         ELSE onError
    ELSE LET out == analyzePackageLock(compromisedPackagesData, doc.lock, results, alertMsg)
         IN  /\ results' = out.results
             /\ alertMsg' = IF out.threw THEN onError ELSE out.alertMsg

\* Mutant: the analysis reverses every entry's compromisedVersions in place
ClickAnalyzeReversing ==
    /\ IF pasteArea.kind = "empty"
       THEN results' = results /\ alertMsg' = PleasePasteAlert
       ELSE ParseAndAnalyze(pasteArea, AnalyzeErrorAlert)
    /\ compromisedPackagesData' =
          [compromisedPackagesData EXCEPT !.compromisedPackages =
              [i \in 1..Len(@) |->
                  [@[i] EXCEPT !.compromisedVersions =
                      [k \in 1..Len(@) |-> @[Len(@) + 1 - k]]]]]
    /\ UNCHANGED <<cmpVars, chkVars, extVars, loadVars, userVars>>

\* The click handler of #analyzeButton
ClickAnalyze ==
    /\ IF pasteArea.kind = "empty"
       THEN results' = results /\ alertMsg' = PleasePasteAlert
       ELSE ParseAndAnalyze(pasteArea, AnalyzeErrorAlert)
    /\ UNCHANGED <<compromisedPackagesData, cmpVars, chkVars, extVars, loadVars, userVars>>

\* The change handler of #fileInput up to await file.text()
FileInputChange ==
    /\ Cardinality(pending) < MaxPending
    /\ \E doc \in Documents : pending' = pending \cup {[via |-> "change", doc |-> doc]}
    /\ pending' # pending
    /\ UNCHANGED <<compromisedPackagesData, cmpVars, chkVars, extVars, loadVars, pasteArea,
                   displayVars>>

\* The drop handler up to await file.text(); a file whose name does not include
\* 'package-lock.json', or no file, gives an alert
Drop ==
    /\ \E named \in BOOLEAN :
          IF named
          THEN /\ Cardinality(pending) < MaxPending
               /\ \E doc \in Documents : pending' = pending \cup {[via |-> "drop", doc |-> doc]}
               /\ pending' # pending
               /\ UNCHANGED displayVars
          ELSE /\ alertMsg' = DropInvalidAlert
               /\ UNCHANGED <<pending, results>>
    /\ UNCHANGED <<compromisedPackagesData, cmpVars, chkVars, extVars, loadVars, pasteArea>>

\* await file.text() resolves and the handler goes on
FileTextResolves ==
    /\ \E read \in pending :
          /\ pending' = pending \ {read}
          /\ ParseAndAnalyze(read.doc,
                             IF read.via = "drop" THEN DropErrorAlert ELSE ReadErrorAlert)
    /\ UNCHANGED <<compromisedPackagesData, cmpVars, chkVars, extVars, loadVars, pasteArea>>

\* await file.text() rejects: the catch block
FileTextRejects ==
    /\ \E read \in pending :
          /\ pending' = pending \ {read}
          /\ alertMsg' = IF read.via = "drop" THEN DropErrorAlert ELSE ReadErrorAlert
    /\ UNCHANGED <<compromisedPackagesData, cmpVars, chkVars, extVars, loadVars, pasteArea,
                   results>>

Next ==
    \/ FetchResolves
    \/ FetchRejects
    \/ JsonSettles
    \/ TypeInPasteArea
    \/ ClickAnalyze
    \/ FileInputChange
    \/ Drop
    \/ FileTextResolves
    \/ FileTextRejects

Spec == Init /\ [][Next]_vars

----------------------------------------------------------------------------
(* Properties of the page, under Spec *)

\* The load completed and left a dataset
DatasetLoaded == loadPc = "done" /\ ~DataIsFalsy(compromisedPackagesData)

\* C6: while the dataset is not loaded (the load has not completed, or it
\* failed) no analyze produces a scan result
C6_NoResultUnlessLoaded == results.shown => DatasetLoaded

\* The load has come to its end, with or without a dataset
LoadSettled == loadPc \in {"done", "failed"}

\* C13: once the load has completed no operation changes the dataset (its attack
\* name, its entries, an entry's compromisedVersions), and the dataset is
\* assigned only by the step that completes the load, which happens once
C13_DatasetReadOnlyAfterLoad ==
    [][/\ LoadSettled => (/\ compromisedPackagesData' = compromisedPackagesData
                          /\ loadPc' = loadPc)
       /\ compromisedPackagesData' # compromisedPackagesData =>
             (loadPc = "json" /\ LoadSettled')]_vars

\* C13 witness: after the load of a dataset with two entries an analyze has shown
\* findings, and a file read is still under way
C13_Witness ==
    /\ loadPc = "done"
    /\ compromisedPackagesData = DataBA
    /\ results.shown
    /\ Len(results.threats) >= 1
    /\ pending # {}

====
